---- MODULE Spec2Model ----
(***************************************************************************)
(* Model of the a11y-core utilities: the focus trap and FocusManager of    *)
(* a11y-core/src/focus.ts, the screen-reader announcer and the locale      *)
(* registry; and of the react-a11y hooks built on them.                    *)
(***************************************************************************)
EXTENDS Integers, Sequences, FiniteSets, TLC

(***************************************************************************)
(* Bounds                                                                  *)
(***************************************************************************)
MaxChildren == 3
MaxTraps == 2
MaxRegistrations == 1
MaxAnnouncements == 2
MaxItems == 3
MaxCalls == 2

VARIABLES
  children,         \* the container's element children, in DOM order
  activeElement,    \* document.activeElement: a position of Doc, 0 = body
  listeners,        \* keydown listeners installed on the container, in order
  traps,            \* one record per trapFocus call: its closure
  previousElement,  \* FocusManager.previousElement
  savedFrom,        \* the element that held focus at the last saveFocus()
  lastOp,           \* the operation that produced this state, and its effects
  tabRun,           \* only key presses since focus was last placed inside
  modal             \* position in the modal open/close workflow

VARIABLES
  localeData,       \* the registry: the own properties of the localeData object
  currentLocale,    \* the process-wide current locale code
  messages,         \* the process-wide active message table
  registrations,    \* registerLocale calls that stored a table so far
  localeOp          \* the locale operation that produced this state

localeVars == <<localeData, currentLocale, messages, registrations, localeOp>>

VARIABLES
  documentDefined,  \* typeof document !== 'undefined'
  announcements,    \* the elements announceToScreenReader created, in order
  bodyChildren,     \* those of them that are children of document.body
  timers,           \* those of them whose setTimeout callback is pending
  announceOp        \* the announcer operation that produced this state

announceVars == <<documentDefined, announcements, bodyChildren, timers,
                  announceOp>>

focusVars == <<children, activeElement, listeners, traps, previousElement,
               savedFrom, lastOp, tabRun, modal>>

VARIABLES
  itemCount,        \* useKeyboardNavigation: the itemCount argument
  loop,             \* options.loop
  orientation,      \* options.orientation
  currentIndex,     \* the currentIndex state of the hook
  renderedIndex,    \* the currentIndex the last rendered handleKeyDown closed over
  navOp             \* the key press that produced this state, and its effects

VARIABLES
  hookTimers,       \* useAnnouncer: the elements whose hook timer is pending
  hookLocale,       \* useA11yLocale: the locale state
  hookMessages,     \* the messages state
  isLoading,        \* the isLoading state
  mountLoad,        \* the mount effect's import: pending, queued, done, failed
  calls,            \* one record per call of the hook's setLocale
  microtasks,       \* the continuations ready to run, in order
  hookOp,           \* the hook step that produced this state
  trapHook          \* useFocusTrap: the component's phase, isActive, whether
                    \* the ref holds the element, the effect's cleanup

reactVars == <<itemCount, loop, orientation, currentIndex, renderedIndex,
               navOp, hookTimers, hookLocale, hookMessages, isLoading,
               mountLoad, calls, microtasks, hookOp, trapHook>>

vars == <<focusVars, localeVars, announceVars, reactVars>>

(***************************************************************************)
(* The DOM: elements are described by the attributes the code reads.       *)
(***************************************************************************)
Elem(tag, disabled, hasTabindex, tabindexAttr, href, html) ==
  [tag |-> tag, disabled |-> disabled, hasTabindex |-> hasTabindex,
   tabindexAttr |-> tabindexAttr, href |-> href, html |-> html]

Button         == Elem("BUTTON", FALSE, FALSE, 0, FALSE, TRUE)
DisabledButton == Elem("BUTTON", TRUE, FALSE, 0, FALSE, TRUE)
Div            == Elem("DIV", FALSE, FALSE, 0, FALSE, TRUE)
ButtonTab1     == Elem("BUTTON", FALSE, TRUE, 1, FALSE, TRUE)
SvgTab0        == Elem("svg", FALSE, TRUE, 0, FALSE, FALSE)

ChildKinds == {Button, DisabledButton, Div, ButtonTab1}

\* The page: a button and a focusable svg before the container, the
\* container's children, and a button after it.
Before == <<Button, SvgTab0>>
After  == <<Button>>
Doc == Before \o children \o After

Body == 0
Null == -1
ElemA == 1
Descendants == {Len(Before) + i : i \in 1..Len(children)}
Elements == 1..Len(Doc)

FormTags == {"BUTTON", "INPUT", "SELECT", "TEXTAREA"}

\* element.querySelectorAll('button, [href], input, select, textarea,
\*                           [tabindex]:not([tabindex="-1"])')
MatchesSelector(el) ==
  \/ el.tag \in FormTags
  \/ el.href
  \/ el.hasTabindex /\ el.tabindexAttr # -1

\* Whether HTMLElement.focus() moves focus to the element.
CanFocus(el) ==
  /\ ~(el.disabled /\ el.tag \in FormTags)
  /\ \/ el.hasTabindex
     \/ el.tag \in FormTags
     \/ el.tag = "A" /\ el.href

\* The tabindex used for sequential navigation.
TabValue(el) == IF el.hasTabindex THEN el.tabindexAttr ELSE 0

Tabbable(e) == CanFocus(Doc[e]) /\ TabValue(Doc[e]) >= 0

\* Sequential focus navigation order: positive tabindex values first, in
\* ascending order, then the rest, ties in DOM order.
TabBefore(e, f) ==
  LET te == TabValue(Doc[e])
      tf == TabValue(Doc[f])
  IN  IF te > 0 /\ tf > 0 THEN te < tf \/ (te = tf /\ e < f)
      ELSE IF te > 0 THEN TRUE
      ELSE IF tf > 0 THEN FALSE
      ELSE e < f

TabSet == {e \in Elements : Tabbable(e)}

\* Where the browser's default action of Tab / Shift+Tab moves focus from
\* `from`; Body when focus leaves the page.
NextInTabOrder(from) ==
  LET later == IF from = Body THEN TabSet
               ELSE {f \in TabSet : f # from /\ TabBefore(from, f)}
  IN  IF later = {} THEN Body
      ELSE CHOOSE f \in later : \A g \in later : g = f \/ TabBefore(f, g)

PrevInTabOrder(from) ==
  LET earlier == IF from = Body THEN TabSet
                 ELSE {f \in TabSet : f # from /\ TabBefore(f, from)}
  IN  IF earlier = {} THEN Body
      ELSE CHOOSE f \in earlier : \A g \in earlier : g = f \/ TabBefore(g, f)

\* element.focus(): a no-op on undefined (optional chaining) and on an
\* element the browser cannot focus.
FocusResult(e, current) ==
  IF e # Null /\ e # Body /\ CanFocus(Doc[e]) THEN e ELSE current

\* HTMLElement.tabIndex: the attribute when present, else 0 for the
\* elements that are focusable by default and -1 for the others.
tabIndex(el) ==
  IF el.hasTabindex THEN el.tabindexAttr
  ELSE IF el.tag \in FormTags \/ (el.tag = "A" /\ el.href) THEN 0 ELSE -1

focusableTags == {"A", "BUTTON", "INPUT", "SELECT", "TEXTAREA"}

\* A predicate that looks at the disabled attribute first.
isFocusableDisabledFirst(el) ==
  IF el.disabled THEN FALSE
  ELSE IF tabIndex(el) > 0 \/ (tabIndex(el) = 0 /\ el.hasTabindex) THEN TRUE
  ELSE el.tag \in focusableTags

isFocusable(el) ==
  IF tabIndex(el) > 0 \/ (tabIndex(el) = 0 /\ el.hasTabindex) THEN TRUE
  ELSE IF el.disabled THEN FALSE
  ELSE el.tag \in focusableTags

(***************************************************************************)
(* The locale registry                                                     *)
(***************************************************************************)
\* The keys of the A11yMessages interface.
A11yMessageKeys ==
  {"skipToContent", "mainNavigation", "userMenu", "breadcrumb", "pagination",
   "siteNavigation", "footerNavigation",
   "close", "open", "save", "cancel", "delete", "edit", "submit", "search",
   "loading", "menu",
   "nextPage", "previousPage", "currentPage", "goToPage",
   "home", "dashboard", "settings", "profile",
   "login", "logout", "register", "account",
   "customers", "companies", "modules",
   "required", "optional", "error", "success"}

\* The requiredKeys array of registerLocale.
requiredKeys ==
  {"skipToContent", "mainNavigation", "userMenu", "breadcrumb", "pagination",
   "siteNavigation", "footerNavigation", "close", "open", "save", "cancel",
   "delete", "edit", "submit", "search", "loading", "menu", "nextPage",
   "previousPage", "currentPage", "goToPage", "home", "dashboard", "settings",
   "profile", "login", "logout", "register", "account", "customers",
   "companies", "modules"}

\* A JavaScript value that can stand where a message table is expected:
\* its kind, and for an object its identity, its `close` message and the
\* A11yMessages keys it lacks.
Value(kind, name, close, lacks) ==
  [kind |-> kind, name |-> name, close |-> close, lacks |-> lacks]

Undefined   == Value("undefined", "", "", {})
NullValue   == Value("null", "", "", {})
StringValue == Value("string", "", "", {})
\* Object.prototype.constructor, which every object literal inherits.
ObjectConstructor == Value("function", "Object", "", {})

enMessages == Value("object", "en", "Close", {})
svMessages == Value("object", "sv", "Stäng", {})

\* The tables callers pass to registerLocale: complete, or lacking one key.
CustomTables ==
  {Value("object", "custom", "Schliessen", lacks) :
     lacks \in {{}} \cup {{k} : k \in A11yMessageKeys}}

TableInputs == CustomTables \cup {NullValue, StringValue}

\* A few of them: the complete table, one lacking a key that requiredKeys
\* lists, one lacking a key that it does not list, and two non-objects.
SampleInputs ==
  {t \in TableInputs : t.lacks \in {{}, {"close"}, {"required"}}}

\* Locale codes: the built-in ones, a custom one, the empty string and the
\* name of a property that localeData inherits from Object.prototype.
Codes == {"en", "sv", "de", "", "constructor"}
InheritedKeys == {"constructor"}

\* !value
Falsy(v) == v.kind \in {"undefined", "null"}

\* localeData[locale]: an own property, else an inherited one, else undefined.
Lookup(data, locale) ==
  IF data[locale] # Undefined THEN data[locale]
  ELSE IF locale \in InheritedKeys THEN ObjectConstructor
  ELSE Undefined

IsRegistered(locale) == localeData[locale] # Undefined

LocaleIdle ==
  /\ localeData = [c \in Codes |->
                     IF c = "en" THEN enMessages
                     ELSE IF c = "sv" THEN svMessages ELSE Undefined]
  /\ currentLocale = "en"
  /\ messages = enMessages
  /\ registrations = 0
  /\ localeOp = [op |-> "init", code |-> "", table |-> Undefined]

(***************************************************************************)
(* The screen-reader announcer: state                                      *)
(***************************************************************************)
NoAnnounceOp == [op |-> "init", message |-> "", priority |-> "", created |-> 0,
                 threw |-> FALSE]

AnnouncerIdle ==
  /\ announcements = <<>>
  /\ bodyChildren = {}
  /\ timers = {}
  /\ announceOp = NoAnnounceOp

(***************************************************************************)
(* The react-a11y hooks: state                                             *)
(***************************************************************************)
NoNavOp == [op |-> "init", key |-> "", before |-> 0, rendered |-> 0,
            selected |-> <<>>, prevented |-> FALSE]

\* The initial messages state of useA11yLocale: every message the empty
\* string.
emptyMessages == Value("object", "empty", "", {})

NoHookOp == [op |-> "init", call |-> 0, lastResolved |-> 0]

\* The hooks before any of them is used.
\* A component using useFocusTrap that has not rendered yet; cleanup is the
\* trap whose release function React holds, 0 for none.
NoTrapHook ==
  [phase |-> "unmounted", isActive |-> FALSE, attached |-> FALSE,
   cleanup |-> 0]

ReactIdle ==
  /\ trapHook = NoTrapHook
  /\ itemCount = 1
  /\ loop = TRUE
  /\ orientation = "vertical"
  /\ currentIndex = 0
  /\ renderedIndex = 0
  /\ navOp = NoNavOp
  /\ hookTimers = {}
  /\ hookLocale = "en"
  /\ hookMessages = emptyMessages
  /\ isLoading = TRUE
  /\ mountLoad = "pending"
  /\ calls = <<>>
  /\ microtasks = <<>>
  /\ hookOp = NoHookOp

(***************************************************************************)
(* trapFocus                                                               *)
(***************************************************************************)
focusableElements == {e \in Descendants : MatchesSelector(Doc[e])}

Min(S) == CHOOSE x \in S : \A y \in S : x <= y
Max(S) == CHOOSE x \in S : \A y \in S : x >= y

firstFocusable == IF focusableElements = {} THEN Null ELSE Min(focusableElements)
lastFocusable  == IF focusableElements = {} THEN Null ELSE Max(focusableElements)

\* activeElement instanceof HTMLElement (the body is an HTMLElement).
IsHTMLElement(e) == e = Body \/ (e \in Elements /\ Doc[e].html)

NoOp == [op |-> "init", key |-> "", shift |-> FALSE, ran |-> {},
         preventedBy |-> {}, movedBy |-> {}, before |-> Body, trap |-> 0,
         threw |-> FALSE, repeat |-> FALSE, element |-> "",
         target |-> Null, result |-> FALSE]

\* The element argument of trapFocus: the container, or no element.
AbsentElements == {"null", "undefined"}

\* A member call written x.focus().
PlainMemberCall == FALSE

\* Whether the focus() calls of trapFocus are written x?.focus().
OptionalChaining == TRUE

\* Whether the call x.focus() or x?.focus() throws: a plain member call on
\* undefined or null is a TypeError, an optional one is skipped.
CallThrows(e, optional) == e = Null /\ ~optional

Inside(e) == e \in Descendants

\* The run of key presses continues across a key press and starts afresh,
\* when focus is inside the container, after anything else.
NextTabRun(op, act) == IF op = "keydown" THEN tabRun ELSE Inside(act)

\* Progress through: saveFocus on A, trapFocus, Shift+Tab, release,
\* restoreFocus; anything else leaves the workflow.
NextModal(op) ==
  CASE op = "saveFocus" /\ activeElement = ElemA -> 1
    [] op = "trapFocus" /\ modal = 1 -> 2
    [] op = "shiftTab" /\ modal = 2 -> 3
    [] op = "release" /\ modal = 3 -> 4
    [] op = "restoreFocus" /\ modal = 4 -> 5
    [] OTHER -> 0

\* element.addEventListener("keydown", handleKeyDown)
AddEventListener(ls, id) == Append(ls, id)

\* A release function that leaves the listener installed.
KeepEventListener(ls, id) == ls

\* element.removeEventListener("keydown", handleKeyDown)
RemoveEventListener(ls, id) == SelectSeq(ls, LAMBDA x : x # id)

\* A trap whose backward wrap targets the first element again.
NewTrapLastIsFirst ==
  [first |-> firstFocusable, last |-> firstFocusable, released |-> FALSE,
   noop |-> FALSE]

\* The closure of one trapFocus call.
NewTrap ==
  [first |-> firstFocusable, last |-> lastFocusable, released |-> FALSE,
   noop |-> FALSE]

\* What an early return of trapFocus hands back: () => {}.
NoOpTrap == [first |-> Null, last |-> Null, released |-> FALSE, noop |-> TRUE]

\* An element check that lets null through: element === undefined.
EarlyReturnUndefinedOnly(element) ==
  element = "undefined" \/ ~documentDefined

\* The two early returns: !element, and typeof document === 'undefined'.
EarlyReturn(element) ==
  element \in AbsentElements \/ ~documentDefined

\* trapFocus(element) on the container, in a browser: past the two early
\* returns (no element, no document), which install nothing.
TrapFocus ==
  /\ documentDefined
  /\ Len(traps) < MaxTraps
  /\ LET id == Len(traps) + 1
         act == FocusResult(firstFocusable, activeElement)
     IN  /\ traps' = Append(traps, NewTrap)
         /\ listeners' = AddEventListener(listeners, id)
         /\ activeElement' = act
         /\ lastOp' = [NoOp EXCEPT !.op = "trapFocus", !.trap = id,
                                   !.element = "container",
                                   !.threw = CallThrows(firstFocusable,
                                                        OptionalChaining)]
         /\ tabRun' = NextTabRun("trapFocus", act)
         /\ modal' = NextModal("trapFocus")
  /\ UNCHANGED <<children, previousElement, savedFrom,
                 localeVars, announceVars, reactVars>>

\* trapFocus(null) and trapFocus(undefined): the early return hands back a
\* function that does nothing; past the check, element.querySelectorAll
\* throws a TypeError.
TrapFocusAbsent(element) ==
  /\ element \in AbsentElements
  /\ Len(traps) < MaxTraps
  /\ IF EarlyReturn(element)
     THEN /\ traps' = Append(traps, NoOpTrap)
          /\ lastOp' = [NoOp EXCEPT !.op = "trapFocusAbsent",
                                    !.trap = Len(traps) + 1,
                                    !.element = element]
     ELSE /\ traps' = traps
          /\ lastOp' = [NoOp EXCEPT !.op = "trapFocusAbsent",
                                    !.element = element, !.threw = TRUE]
  /\ tabRun' = NextTabRun("trapFocusAbsent", activeElement)
  /\ modal' = NextModal("trapFocusAbsent")
  /\ UNCHANGED <<children, activeElement, listeners, previousElement,
                 savedFrom, localeVars, announceVars, reactVars>>

\* A release function that removes every keydown listener of the container.
ReleasedListenersAll(ls, t) == <<>>

\* A release function that removes the listener added last.
ReleasedListenersPop(ls, t) ==
  IF traps[t].noop THEN ls ELSE SubSeq(ls, 1, Len(ls) - 1)

\* The listeners after the function trapFocus returned has run.
ReleasedListeners(ls, t) ==
  IF traps[t].noop THEN ls ELSE RemoveEventListener(ls, t)

\* The function trapFocus returned.
Release(t) ==
  /\ t \in 1..Len(traps)
  /\ listeners' = ReleasedListeners(listeners, t)
  /\ traps' = [traps EXCEPT ![t].released = TRUE]
  /\ lastOp' = [NoOp EXCEPT !.op = "release", !.trap = t,
                            !.repeat = traps[t].released]
  /\ tabRun' = NextTabRun("release", activeElement)
  /\ modal' = NextModal("release")
  /\ UNCHANGED <<children, activeElement, previousElement, savedFrom,
                 localeVars, announceVars, reactVars>>

\* A handler that wraps on every Tab press, wherever focus is.
HandleKeyDownAnyTab(t, key, shift, st) ==
  LET to == IF shift THEN traps[t].last ELSE traps[t].first
  IN  IF key # "Tab" THEN [st EXCEPT !.ran = @ \cup {t}]
      ELSE [st EXCEPT !.ran = @ \cup {t},
                      !.preventedBy = @ \cup {t},
                      !.active = FocusResult(to, st.active),
                      !.movedBy = IF FocusResult(to, st.active) # st.active
                                  THEN @ \cup {t} ELSE @]

\* handleKeyDown of trap t, on the event state st = [active, preventedBy,
\* ran, movedBy, threw].
HandleKeyDown(t, key, shift, st) ==
  LET ran == [st EXCEPT !.ran = @ \cup {t}]
      wrap(to) == [ran EXCEPT !.preventedBy = @ \cup {t},
                              !.threw = @ \/ CallThrows(to, OptionalChaining),
                              !.active = FocusResult(to, st.active),
                              !.movedBy = IF FocusResult(to, st.active) # st.active
                                          THEN @ \cup {t} ELSE @]
  IN  IF key # "Tab" THEN ran
      ELSE IF shift
           THEN IF st.active = traps[t].first THEN wrap(traps[t].last) ELSE ran
           ELSE IF st.active = traps[t].last THEN wrap(traps[t].first) ELSE ran

\* The installed listeners run in the order they were added.
RECURSIVE Dispatch(_, _, _, _)
Dispatch(ls, key, shift, st) ==
  IF ls = <<>> THEN st
  ELSE Dispatch(Tail(ls), key, shift, HandleKeyDown(Head(ls), key, shift, st))

Keys == {"Tab", "Enter"}

\* A key press: the keydown event is dispatched at the focused element and
\* bubbles to the container when the element is inside it; then the browser
\* performs the default action unless a handler prevented it.
KeyDown(key, shift) ==
  LET st0 == [active |-> activeElement, preventedBy |-> {}, ran |-> {},
              movedBy |-> {}, threw |-> FALSE]
      st  == IF Inside(activeElement) THEN Dispatch(listeners, key, shift, st0)
             ELSE st0
      act == IF key = "Tab" /\ st.preventedBy = {}
             THEN IF shift THEN PrevInTabOrder(st.active)
                  ELSE NextInTabOrder(st.active)
             ELSE st.active
  IN  /\ activeElement' = act
      /\ lastOp' = [op |-> "keydown", key |-> key, shift |-> shift,
                    ran |-> st.ran, preventedBy |-> st.preventedBy,
                    movedBy |-> st.movedBy, before |-> activeElement,
                    trap |-> 0, threw |-> st.threw, repeat |-> FALSE,
                    element |-> "", target |-> Null, result |-> FALSE]
      /\ tabRun' = NextTabRun("keydown", act)
      /\ modal' = NextModal(IF key = "Tab" /\ shift THEN "shiftTab" ELSE "key")
      /\ UNCHANGED <<children, listeners, traps, previousElement, savedFrom,
                     localeVars, announceVars, reactVars>>

\* The user, or the caller's code, moves focus to an element or blurs it.
UserFocus(e) ==
  /\ e = Body \/ (e \in Elements /\ CanFocus(Doc[e]))
  /\ e # activeElement
  /\ activeElement' = e
  /\ lastOp' = [NoOp EXCEPT !.op = "focus"]
  /\ tabRun' = NextTabRun("focus", e)
  /\ modal' = NextModal("focus")
  /\ UNCHANGED <<children, listeners, traps, previousElement, savedFrom,
                 localeVars, announceVars, reactVars>>

(***************************************************************************)
(* FocusManager                                                            *)
(***************************************************************************)
\* A saveFocus that keeps the stored element when the active element is not
\* an HTMLElement.
SavedElementKeepsOld(active) ==
  IF IsHTMLElement(active) THEN active ELSE previousElement

\* activeElement instanceof HTMLElement ? activeElement : null
SavedElement(active) == IF IsHTMLElement(active) THEN active ELSE Null

\* lastOp.target records the value this call replaced.
SaveFocus ==
  /\ previousElement' = SavedElement(activeElement)
  /\ savedFrom' = activeElement
  /\ lastOp' = [NoOp EXCEPT !.op = "saveFocus", !.target = previousElement]
  /\ tabRun' = NextTabRun("saveFocus", activeElement)
  /\ modal' = NextModal("saveFocus")
  /\ UNCHANGED <<children, activeElement, listeners, traps,
                 localeVars, announceVars, reactVars>>

\* A restoreFocus that calls focus() whatever previousElement holds.
RestoreUnguarded(prev) == TRUE

\* this.previousElement && typeof this.previousElement.focus === "function"
RestoreGuard(prev) == prev # Null

\* A restoreFocus that never calls focus().
RestoredNothing(prev, active) == active

RestoredElement(prev, active) ==
  IF RestoreGuard(prev) THEN FocusResult(prev, active) ELSE active

RestoreFocus ==
  /\ activeElement' = RestoredElement(previousElement, activeElement)
  /\ lastOp' = [NoOp EXCEPT !.op = "restoreFocus", !.before = activeElement,
                            !.threw = RestoreGuard(previousElement)
                                      /\ CallThrows(previousElement, FALSE),
                            !.target = IF lastOp.op = "saveFocus"
                                       THEN lastOp.target ELSE Null]
  /\ tabRun' = NextTabRun("restoreFocus", activeElement')
  /\ modal' = NextModal("restoreFocus")
  /\ UNCHANGED <<children, listeners, traps, previousElement, savedFrom,
                 localeVars, announceVars, reactVars>>

\* The focus subsystem before any call.
FocusIdle ==
  /\ children = <<>>
  /\ activeElement = Body
  /\ listeners = <<>>
  /\ traps = <<>>
  /\ previousElement = Null
  /\ savedFrom = Null
  /\ lastOp = NoOp
  /\ tabRun = FALSE
  /\ modal = 0

InitFocus ==
  /\ LocaleIdle
  /\ AnnouncerIdle
  /\ ReactIdle
  /\ documentDefined = TRUE
  /\ children \in UNION {[1..n -> ChildKinds] : n \in 0..MaxChildren}
  /\ activeElement \in {Body, ElemA}
  /\ listeners = <<>>
  /\ traps = <<>>
  /\ previousElement = Null
  /\ savedFrom = Null
  /\ lastOp = NoOp
  /\ tabRun = FALSE
  /\ modal = 0

NextFocus ==
  \/ TrapFocus
  \/ \E t \in 1..MaxTraps : Release(t)
  \/ \E key \in Keys, shift \in BOOLEAN : KeyDown(key, shift)
  \/ \E e \in 0..(Len(Before) + MaxChildren + Len(After)) : UserFocus(e)
  \/ SaveFocus
  \/ RestoreFocus

SpecFocus == InitFocus /\ [][NextFocus]_vars

\* The trap alone, with no FocusManager in use.
NextTrap ==
  \/ TrapFocus
  \/ \E t \in 1..MaxTraps : Release(t)
  \/ \E key \in Keys, shift \in BOOLEAN : KeyDown(key, shift)
  \/ \E e \in 0..(Len(Before) + MaxChildren + Len(After)) : UserFocus(e)

SpecTrap == InitFocus /\ [][NextTrap]_vars

\* The trap, called with and without an element.
NextTrapAbsent ==
  \/ NextTrap
  \/ \E element \in AbsentElements : TrapFocusAbsent(element)

\* A container with at most one child.
InitTrapAbsent == InitFocus /\ Len(children) <= 1

SpecTrapAbsent == InitTrapAbsent /\ [][NextTrapAbsent]_vars

\* Elements the trap does not count: a plain div, a div with tabindex="-1"
\* (which a click or a script can focus) and a disabled button.
DivTabNeg == Elem("DIV", FALSE, TRUE, -1, FALSE, TRUE)
UncountedKinds == {Div, DivTabNeg, DisabledButton}

\* The trap on a container with no focusable descendant.
InitEmptyTrap ==
  /\ LocaleIdle
  /\ AnnouncerIdle
  /\ ReactIdle
  /\ documentDefined = TRUE
  /\ children \in UNION {[1..n -> UncountedKinds] : n \in 0..MaxChildren}
  /\ activeElement \in {Body, ElemA}
  /\ listeners = <<>>
  /\ traps = <<>>
  /\ previousElement = Null
  /\ savedFrom = Null
  /\ lastOp = NoOp
  /\ tabRun = FALSE
  /\ modal = 0

SpecEmptyTrap == InitEmptyTrap /\ [][NextTrap]_vars

\* isFocusable(element) on the element at position e.
IsFocusableCall(e) ==
  /\ e \in Elements
  /\ lastOp' = [NoOp EXCEPT !.op = "isFocusable", !.target = e,
                            !.result = isFocusable(Doc[e])]
  /\ tabRun' = NextTabRun("isFocusable", activeElement)
  /\ modal' = NextModal("isFocusable")
  /\ UNCHANGED <<children, activeElement, listeners, traps, previousElement,
                 savedFrom, localeVars, announceVars, reactVars>>

\* Every element the predicate and the selector tell apart: each tag, with
\* and without disabled and href, without tabindex and with a negative, a
\* zero and two positive values.
TabindexValues == {-1, 0, 1, 2}
AllKinds ==
  {Elem(tag, disabled, t[1], t[2], href, TRUE) :
     tag \in focusableTags \cup {"DIV"}, disabled \in BOOLEAN,
     t \in {<<FALSE, 0>>} \cup {<<TRUE, v>> : v \in TabindexValues},
     href \in BOOLEAN}

\* A container holding one such element, alone or after a button.
InitPredicate ==
  /\ LocaleIdle
  /\ AnnouncerIdle
  /\ ReactIdle
  /\ documentDefined = TRUE
  /\ \E el \in AllKinds : children \in {<<el>>, <<Button, el>>}
  /\ activeElement = Body
  /\ listeners = <<>>
  /\ traps = <<>>
  /\ previousElement = Null
  /\ savedFrom = Null
  /\ lastOp = NoOp
  /\ tabRun = FALSE
  /\ modal = 0

NextPredicate ==
  \/ \E e \in 1..(Len(Before) + 2 + Len(After)) : IsFocusableCall(e)
  \/ TrapFocus

SpecPredicate == InitPredicate /\ [][NextPredicate]_vars

\* The FocusManager alone, with no trap installed.
NextRestore ==
  \/ \E key \in Keys, shift \in BOOLEAN : KeyDown(key, shift)
  \/ \E e \in 0..(Len(Before) + MaxChildren + Len(After)) : UserFocus(e)
  \/ SaveFocus
  \/ RestoreFocus

SpecRestore == InitFocus /\ [][NextRestore]_vars

\* The modal workflow: a dialog container with exactly two focusable
\* elements, driven by every operation.
InitModal ==
  /\ InitFocus
  /\ Cardinality(focusableElements) = 2
  /\ \A e \in focusableElements : CanFocus(Doc[e]) /\ isFocusable(Doc[e])

SpecModal == InitModal /\ [][NextFocus]_vars

(***************************************************************************)
(* Properties of the focus trap and of FocusManager                        *)
(***************************************************************************)
\* The container's focusable descendants, by the focusability predicate.
FocusableSet == {e \in Descendants : isFocusable(Doc[e])}

ActiveTraps == {t \in 1..Len(traps) : ~traps[t].released}

\* C1: while a trap is active, a run of key presses that starts with focus
\* inside a container that has a focusable descendant keeps focus inside
\* the container.
C1_FocusStaysInContainer ==
  (tabRun /\ ActiveTraps # {} /\ FocusableSet # {}) => Inside(activeElement)

\* C2: with an active trap, Tab on the last focusable element moves focus to
\* the first, Shift+Tab on the first moves focus to the last, and
\* preventDefault is called in both cases.
C2_WrapAtBoundaries ==
  (/\ lastOp.op = "keydown" /\ lastOp.key = "Tab"
   /\ ActiveTraps # {} /\ FocusableSet # {})
  => /\ (~lastOp.shift /\ lastOp.before = Max(FocusableSet))
          => (activeElement = Min(FocusableSet) /\ lastOp.preventedBy # {})
     /\ (lastOp.shift /\ lastOp.before = Min(FocusableSet))
          => (activeElement = Max(FocusableSet) /\ lastOp.preventedBy # {})

\* C3: a keydown that follows the release of a trap does not run that
\* trap's handler, which neither prevents the default nor moves focus.
C3_ReleasedTrapNotRun ==
  lastOp.op = "keydown"
  => \A t \in 1..Len(traps) :
       traps[t].released
       => t \notin (lastOp.ran \cup lastOp.preventedBy \cup lastOp.movedBy)

C3_Witness ==
  /\ lastOp.op = "keydown" /\ lastOp.key = "Tab" /\ ~lastOp.shift
  /\ Len(traps) >= 1 /\ ActiveTraps = {}
  /\ lastOp.before = traps[1].last
  /\ lastOp.preventedBy = {}
  /\ ~Inside(activeElement)

\* C4: right after trapFocus on a container with a focusable descendant,
\* focus is on the first focusable descendant in DOM order.
C4_FocusFirstOnActivate ==
  (lastOp.op = "trapFocus" /\ FocusableSet # {})
  => activeElement = Min(FocusableSet)

\* C5: when an element held focus at saveFocus() and focus then moved
\* elsewhere, restoreFocus() puts focus back on that element.
C5_RestoreReturnsToSaved ==
  (/\ lastOp.op = "restoreFocus" /\ savedFrom \in Elements
   /\ lastOp.before # savedFrom)
  => activeElement = savedFrom

\* C5, amended: restoreFocus() puts focus back on the element that held
\* focus at saveFocus() when that element is an HTMLElement; when it is
\* not, nothing was stored and restoreFocus() leaves focus where it is.
C5_RestoreReturnsToSavedHTMLElement ==
  (/\ lastOp.op = "restoreFocus" /\ savedFrom \in Elements
   /\ lastOp.before # savedFrom)
  => IF IsHTMLElement(savedFrom) THEN activeElement = savedFrom
     ELSE activeElement = lastOp.before

C5_Witness ==
  /\ lastOp.op = "restoreFocus" /\ savedFrom \in Elements
  /\ IsHTMLElement(savedFrom)
  /\ lastOp.before \in Elements /\ lastOp.before # savedFrom
  /\ activeElement = savedFrom

C11_ReleaseIdempotent ==
  /\ [][(lastOp'.op = "release" /\ lastOp'.repeat)
         => /\ ~lastOp'.threw
            /\ UNCHANGED <<activeElement, listeners, traps, children,
                           previousElement>>]_vars
  /\ [](\A t \in 1..Len(traps) :
          traps[t].released
          => \A i \in 1..Len(listeners) : listeners[i] # t)

C11_Witness ==
  /\ lastOp.op = "release" /\ lastOp.repeat
  /\ traps[lastOp.trap].released
  /\ ActiveTraps # {}
  /\ listeners # <<>>

\* C12: trapFocus(null) and trapFocus(undefined) do not throw, install no
\* listener, do not move focus and return a release function; calling that
\* function changes nothing.
C12_AbsentElementIsNoOp ==
  [][/\ lastOp'.op = "trapFocusAbsent"
        => /\ ~lastOp'.threw
           /\ UNCHANGED <<listeners, activeElement, children>>
           /\ Len(traps') = Len(traps) + 1
           /\ lastOp'.trap = Len(traps')
     /\ (lastOp'.op = "release" /\ traps[lastOp'.trap].noop)
        => /\ ~lastOp'.threw
           /\ UNCHANGED <<listeners, activeElement, children,
                          previousElement>>]_vars

C12_Witness ==
  /\ lastOp.op = "release" /\ traps[lastOp.trap].noop
  /\ listeners # <<>>
  /\ Inside(activeElement)

\* C13: on a container with no focusable descendant trapFocus does not
\* throw and does not move focus, and while the trap is active no key
\* press makes a handler throw or move focus.
C13_EmptyContainer ==
  /\ [][(lastOp'.op = "trapFocus" /\ FocusableSet = {})
         => (~lastOp'.threw /\ activeElement' = activeElement)]_vars
  /\ []((lastOp.op = "keydown" /\ FocusableSet = {} /\ ActiveTraps # {})
         => (~lastOp.threw /\ lastOp.movedBy = {}))

C13_Witness ==
  /\ lastOp.op = "keydown" /\ lastOp.key = "Tab" /\ lastOp.shift
  /\ focusableElements = {} /\ FocusableSet = {}
  /\ ActiveTraps # {} /\ lastOp.ran # {}
  /\ Inside(lastOp.before)

\* C14: restoreFocus() on a FocusManager that never saved anything does not
\* throw and leaves the focused element unchanged.
C14_RestoreWithoutSave ==
  (lastOp.op = "restoreFocus" /\ savedFrom = Null)
  => (~lastOp.threw /\ activeElement = lastOp.before)

C14_Witness ==
  /\ lastOp.op = "restoreFocus" /\ savedFrom = Null
  /\ previousElement = Null
  /\ activeElement \in Descendants

\* C16: isFocusable gives true for an element whose tabIndex is positive,
\* or is zero with the tabindex attribute present; otherwise false for an
\* element with the disabled attribute; otherwise true for the tags A,
\* BUTTON, INPUT, SELECT and TEXTAREA; otherwise false.
C16_FourRules ==
  lastOp.op = "isFocusable"
  => LET el == Doc[lastOp.target]
         rule1 == \/ tabIndex(el) > 0
                  \/ tabIndex(el) = 0 /\ el.hasTabindex
         rule2 == el.disabled
         rule3 == el.tag \in {"A", "BUTTON", "INPUT", "SELECT", "TEXTAREA"}
     IN  /\ rule1 => lastOp.result
         /\ (~rule1 /\ rule2) => ~lastOp.result
         /\ (~rule1 /\ ~rule2 /\ rule3) => lastOp.result
         /\ (~rule1 /\ ~rule2 /\ ~rule3) => ~lastOp.result

C16_Witness ==
  /\ lastOp.op = "isFocusable" /\ lastOp.result
  /\ lastOp.target \in Descendants
  /\ Doc[lastOp.target].disabled
  /\ Doc[lastOp.target].tag = "DIV"
  /\ Doc[lastOp.target].hasTabindex /\ Doc[lastOp.target].tabindexAttr = 0

\* C19: the set a trap cycles over holds exactly the descendants for which
\* isFocusable is true, and its first and last elements are the first and
\* last of those.
C19_TrapSetByPredicate ==
  lastOp.op = "trapFocus"
  => /\ \A e \in Descendants :
          e \in focusableElements <=> isFocusable(Doc[e])
     /\ traps[lastOp.trap].first =
          (IF FocusableSet = {} THEN Null ELSE Min(FocusableSet))
     /\ traps[lastOp.trap].last =
          (IF FocusableSet = {} THEN Null ELSE Max(FocusableSet))

(***************************************************************************)
(* The locale registry: operations                                         *)
(***************************************************************************)
InitLocale ==
  /\ LocaleIdle
  /\ FocusIdle
  /\ AnnouncerIdle
  /\ ReactIdle
  /\ documentDefined = TRUE

\* The value of localeData after registerLocale(locale, localeMessages).
Registered(data, locale, localeMessages) ==
  IF locale = "" THEN data
  ELSE IF Falsy(localeMessages) \/ localeMessages.kind # "object" THEN data
  ELSE IF requiredKeys \cap localeMessages.lacks # {} THEN data
  ELSE [data EXCEPT ![locale] = localeMessages]

RegisterLocale(locale, localeMessages) ==
  LET data == Registered(localeData, locale, localeMessages)
  IN  /\ data # localeData => registrations < MaxRegistrations
      /\ localeData' = data
      /\ registrations' = IF data # localeData THEN registrations + 1
                          ELSE registrations
      /\ localeOp' = [op |-> "registerLocale", code |-> locale,
                      table |-> localeMessages]
      /\ UNCHANGED <<currentLocale, messages, focusVars, announceVars, reactVars>>

\* A setLocale that moves the pointer and leaves the active table behind.
LocaleSetStale(data, locale, current, msgs) ==
  IF locale = "" THEN <<current, msgs>>
  ELSE IF Falsy(Lookup(data, locale)) THEN <<"en", Lookup(data, "en")>>
  ELSE <<locale, msgs>>

\* <<currentLocale, messages>> after setLocale(locale).
LocaleSet(data, locale, current, msgs) ==
  IF locale = "" THEN <<current, msgs>>
  ELSE IF Falsy(Lookup(data, locale)) THEN <<"en", Lookup(data, "en")>>
  ELSE <<locale, Lookup(data, locale)>>

SetLocale(locale) ==
  LET r == LocaleSet(localeData, locale, currentLocale, messages)
  IN  /\ currentLocale' = r[1]
      /\ messages' = r[2]
      /\ localeOp' = [op |-> "setLocale", code |-> locale, table |-> Undefined]
      /\ UNCHANGED <<localeData, registrations, focusVars, announceVars, reactVars>>

getCurrentLocale == currentLocale
getMessages == messages

NextLocale ==
  \/ \E locale \in Codes, t \in SampleInputs : RegisterLocale(locale, t)
  \/ \E locale \in Codes : SetLocale(locale)

SpecLocale == InitLocale /\ [][NextLocale]_vars

\* registerLocale alone, over every table that lacks one key.
NextRegister ==
  \E locale \in Codes, t \in TableInputs : RegisterLocale(locale, t)

SpecRegister == InitLocale /\ [][NextRegister]_vars

(***************************************************************************)
(* Properties of the locale registry                                       *)
(***************************************************************************)
\* C7: after setLocale(code) with a registered code, getCurrentLocale() is
\* code and getMessages() is the table registered under code; for the
\* built-in sv table its close message is the Swedish one.
C7_SetRegisteredLocale ==
  (localeOp.op = "setLocale" /\ IsRegistered(localeOp.code))
  => /\ getCurrentLocale = localeOp.code
     /\ getMessages = localeData[localeOp.code]
     /\ (localeOp.code = "sv" /\ localeData["sv"] = svMessages)
          => getMessages.close = "Stäng"

C7_Witness ==
  /\ localeOp.op = "setLocale" /\ localeOp.code = "de"
  /\ IsRegistered("de")
  /\ getCurrentLocale = "de" /\ getMessages.name = "custom"

\* C8: after setLocale(code) with a code that is not registered,
\* getCurrentLocale() is 'en' and getMessages() is the built-in English
\* table.
C8_UnregisteredFallsBack ==
  (localeOp.op = "setLocale" /\ ~IsRegistered(localeOp.code))
  => (getCurrentLocale = "en" /\ getMessages = enMessages)

\* C9: registerLocale with a table that lacks one of the A11yMessages keys
\* leaves the registry unchanged.
C9_IncompleteTableRejected ==
  [][(/\ localeOp'.op = "registerLocale"
      /\ localeOp'.table.kind = "object"
      /\ Cardinality(localeOp'.table.lacks) = 1)
     => localeData' = localeData]_vars

(***************************************************************************)
(* The screen-reader announcer: operations                                 *)
(***************************************************************************)
Messages == {"", "x", "y"}
\* The priority argument; "omitted" takes the parameter's default.
Priorities == {"polite", "assertive", "omitted"}

\* An element whose aria-live ignores the priority argument.
AnnouncementAlwaysPolite(message, priority) ==
  [role |-> "status", ariaLive |-> "polite", ariaAtomic |-> "true",
   textContent |-> message]

\* The attributes and text of the element one call creates.
Announcement(message, priority) ==
  [role |-> "status",
   ariaLive |-> IF priority = "omitted" THEN "polite" ELSE priority,
   ariaAtomic |-> "true",
   textContent |-> message]

\* A call that lacks the guard on the message.
AnnouncesAnyMessage(message) == documentDefined

\* Whether the call gets past its two guards.
Announces(message) == documentDefined /\ message # ""

AnnounceToScreenReader(message, priority) ==
  /\ Len(announcements) < MaxAnnouncements
  /\ IF Announces(message)
     THEN LET id == Len(announcements) + 1
          IN  /\ announcements' = Append(announcements,
                                         Announcement(message, priority))
              /\ bodyChildren' = bodyChildren \cup {id}
              /\ timers' = timers \cup {id}
              /\ announceOp' = [op |-> "announce", message |-> message,
                                priority |-> priority, created |-> id,
                                threw |-> FALSE]
     ELSE /\ announceOp' = [op |-> "announce", message |-> message,
                            priority |-> priority, created |-> 0,
                            threw |-> FALSE]
          /\ UNCHANGED <<announcements, bodyChildren, timers>>
  /\ UNCHANGED <<documentDefined, focusVars, localeVars, reactVars>>

\* A callback that removes the element of the latest call, as it would if
\* the calls shared one reference to the element.
TimerFiresRemovesLatest(id) ==
  LET latest == Len(announcements)
  IN  /\ id \in timers
      /\ timers' = timers \ {id}
      /\ bodyChildren' = bodyChildren \ {latest}
      /\ announceOp' = [NoAnnounceOp EXCEPT !.op = "timer", !.created = id,
                                            !.threw = latest \notin bodyChildren]
      /\ UNCHANGED <<documentDefined, announcements, focusVars, localeVars,
                     reactVars>>

\* The setTimeout callback of announcement id, run when its delay has
\* elapsed: document.body.removeChild(announcement), which throws when the
\* element is no longer a child of the body.
TimerFires(id) ==
  /\ id \in timers
  /\ timers' = timers \ {id}
  /\ bodyChildren' = bodyChildren \ {id}
  /\ announceOp' = [NoAnnounceOp EXCEPT !.op = "timer", !.created = id,
                                        !.threw = id \notin bodyChildren]
  /\ UNCHANGED <<documentDefined, announcements, focusVars, localeVars, reactVars>>

\* Other code empties the body (document.body.innerHTML = '').
ClearBody ==
  /\ bodyChildren # {}
  /\ bodyChildren' = {}
  /\ announceOp' = [NoAnnounceOp EXCEPT !.op = "clearBody"]
  /\ UNCHANGED <<documentDefined, announcements, timers, focusVars, localeVars, reactVars>>

InitAnnounce ==
  /\ AnnouncerIdle
  /\ documentDefined \in BOOLEAN
  /\ FocusIdle
  /\ LocaleIdle
  /\ ReactIdle

NextAnnounce ==
  \/ \E message \in Messages, priority \in Priorities :
       AnnounceToScreenReader(message, priority)
  \/ \E id \in 1..MaxAnnouncements : TimerFires(id)
  \/ ClearBody

SpecAnnounce == InitAnnounce /\ [][NextAnnounce]_vars

\* The announcer with nothing else touching the body.
NextOverlap ==
  \/ \E message \in Messages, priority \in Priorities :
       AnnounceToScreenReader(message, priority)
  \/ \E id \in 1..MaxAnnouncements : TimerFires(id)

SpecOverlap == InitAnnounce /\ [][NextOverlap]_vars

\* A timer the runtime has scheduled does fire.
SpecAnnounceFair ==
  /\ SpecAnnounce
  /\ \A id \in 1..MaxAnnouncements : WF_vars(TimerFires(id))

(***************************************************************************)
(* Properties of the announcer                                             *)
(***************************************************************************)
\* C6: a call with a non-empty message adds exactly one element to the
\* body, with role status, the requested aria-live (polite when omitted)
\* and the message as its text; an element in the body has its removal
\* pending, and it is eventually removed.
C6_AnnounceAddsThenRemoves ==
  /\ [][(/\ announceOp'.op = "announce" /\ announceOp'.message # ""
          /\ documentDefined)
         => LET id == announceOp'.created
            IN  /\ id = Len(announcements) + 1
                /\ Len(announcements') = id
                /\ \A i \in 1..Len(announcements) :
                     announcements'[i] = announcements[i]
                /\ bodyChildren' = bodyChildren \cup {id}
                /\ id \notin bodyChildren
                /\ announcements'[id].role = "status"
                /\ announcements'[id].ariaLive =
                     (IF announceOp'.priority = "assertive" THEN "assertive"
                      ELSE "polite")
                /\ announcements'[id].textContent = announceOp'.message
        ]_vars
  /\ [](\A id \in bodyChildren : id \in timers)
  /\ \A id \in 1..MaxAnnouncements :
       (id \in bodyChildren) ~> (id \notin bodyChildren)

C6_Witness ==
  /\ announceOp.op = "timer" /\ ~announceOp.threw
  /\ announceOp.created \notin bodyChildren
  /\ announcements[announceOp.created].ariaLive = "assertive"
  /\ announcements[announceOp.created].textContent = "x"

\* C15: announceToScreenReader with an empty message, or where no document
\* exists, creates no element, changes nothing in the body, schedules no
\* timer and does not throw.
C15_GuardedCallIsNoOp ==
  [][(/\ announceOp'.op = "announce"
      /\ (announceOp'.message = "" \/ ~documentDefined))
     => /\ UNCHANGED <<announcements, bodyChildren, timers>>
        /\ announceOp'.created = 0
        /\ ~announceOp'.threw]_vars

C15_Witness ==
  /\ announceOp.op = "announce" /\ announceOp.message = ""
  /\ documentDefined
  /\ announceOp.created = 0
  /\ Len(announcements) = 1 /\ bodyChildren = {1} /\ timers = {1}

(***************************************************************************)
(* useKeyboardNavigation                                                   *)
(***************************************************************************)
NavKeys == {"ArrowDown", "ArrowUp", "ArrowLeft", "ArrowRight", "Home", "End",
            "a"}

nextKeys == IF orientation = "vertical" THEN {"ArrowDown", "ArrowRight"}
            ELSE {"ArrowRight"}
prevKeys == IF orientation = "vertical" THEN {"ArrowUp", "ArrowLeft"}
            ELSE {"ArrowLeft"}

\* a % n of JavaScript: the remainder takes the sign of the dividend.
JsMod(a, n) == IF a >= 0 THEN a % n ELSE 0 - ((0 - a) % n)

\* A previous-key wrap without the "+ itemCount".
newIndexPlainRemainder(key, index) ==
  IF key \in nextKeys
  THEN IF loop THEN JsMod(index + 1, itemCount)
       ELSE Min({index + 1, itemCount - 1})
  ELSE IF key \in prevKeys
  THEN IF loop THEN JsMod(index - 1, itemCount)
       ELSE Max({index - 1, 0})
  ELSE IF key = "Home" THEN 0
  ELSE itemCount - 1

\* The index handleKeyDown computes for a handled key, from the
\* currentIndex it closed over.
newIndex(key, index) ==
  IF key \in nextKeys
  THEN IF loop THEN JsMod(index + 1, itemCount)
       ELSE Min({index + 1, itemCount - 1})
  ELSE IF key \in prevKeys
  THEN IF loop THEN JsMod((index - 1) + itemCount, itemCount)
       ELSE Max({index - 1, 0})
  ELSE IF key = "Home" THEN 0
  ELSE itemCount - 1

\* handleKeyDown(event): the handler of the last render runs; a handled key
\* prevents the default, sets the state and calls onSelect.
NavKeyDown(key) ==
  /\ IF key \in nextKeys \cup prevKeys \cup {"Home", "End"}
     THEN /\ currentIndex' = newIndex(key, renderedIndex)
          /\ navOp' = [op |-> "keydown", key |-> key, before |-> currentIndex,
                       rendered |-> renderedIndex,
                       selected |-> <<newIndex(key, renderedIndex)>>,
                       prevented |-> TRUE]
     ELSE /\ currentIndex' = currentIndex
          /\ navOp' = [op |-> "keydown", key |-> key, before |-> currentIndex,
                       rendered |-> renderedIndex, selected |-> <<>>,
                       prevented |-> FALSE]
  /\ UNCHANGED <<itemCount, loop, orientation, renderedIndex, hookTimers,
                 hookLocale, hookMessages, isLoading, mountLoad, calls,
                 microtasks, hookOp, trapHook, focusVars, localeVars, announceVars>>

\* The component renders, with n items: useCallback makes a handler that
\* closes over the current state.
Render(n) ==
  /\ renderedIndex # currentIndex \/ n # itemCount
  /\ itemCount' = n
  /\ renderedIndex' = currentIndex
  /\ navOp' = [NoNavOp EXCEPT !.op = "render"]
  /\ UNCHANGED <<loop, orientation, currentIndex, hookTimers, hookLocale,
                 hookMessages, isLoading, mountLoad, calls, microtasks, hookOp,
                 trapHook, focusVars, localeVars, announceVars>>

InitNav ==
  /\ FocusIdle
  /\ LocaleIdle
  /\ AnnouncerIdle
  /\ documentDefined = TRUE
  /\ trapHook = NoTrapHook
  /\ itemCount \in 1..MaxItems
  /\ loop \in BOOLEAN
  /\ orientation \in {"vertical", "horizontal"}
  /\ currentIndex = 0
  /\ renderedIndex = 0
  /\ navOp = NoNavOp
  /\ hookTimers = {}
  /\ hookLocale = "en"
  /\ hookMessages = emptyMessages
  /\ isLoading = TRUE
  /\ mountLoad = "pending"
  /\ calls = <<>>
  /\ microtasks = <<>>
  /\ hookOp = NoHookOp

NextNav ==
  \/ \E key \in NavKeys : NavKeyDown(key)
  \/ \E n \in 1..MaxItems : Render(n)

SpecNav == InitNav /\ [][NextNav]_vars

\* C17: with n >= 1 items, index i and a render since the index last
\* changed, a next key stores and selects (i+1) mod n with loop and
\* min(i+1, n-1) without, a previous key (i-1+n) mod n with loop and
\* max(i-1, 0) without, Home 0 and End n-1; each of these keys calls
\* onSelect exactly once and prevents the default.
C17_NavigationIndex ==
  (navOp.op = "keydown" /\ navOp.rendered = navOp.before /\ itemCount >= 1)
  => LET i == navOp.before
         n == itemCount
         stored(x) == /\ currentIndex = x
                      /\ navOp.selected = <<x>>
                      /\ navOp.prevented
     IN  /\ navOp.key \in nextKeys
            => stored(IF loop THEN (i + 1) % n
                      ELSE IF i + 1 < n - 1 THEN i + 1 ELSE n - 1)
         /\ navOp.key \in prevKeys
            => stored(IF loop THEN (i - 1 + n) % n
                      ELSE IF i - 1 > 0 THEN i - 1 ELSE 0)
         /\ navOp.key = "Home" => stored(0)
         /\ navOp.key = "End" => stored(n - 1)

C17_Witness ==
  /\ navOp.op = "keydown" /\ navOp.key = "ArrowUp"
  /\ loop /\ itemCount = 3
  /\ navOp.before = 0 /\ navOp.rendered = 0
  /\ currentIndex = 2 /\ navOp.selected = <<2>>

(***************************************************************************)
(* useAnnouncer                                                            *)
(***************************************************************************)
\* The element the hook's announce creates.
HookAnnouncement(message, priority) ==
  [role |-> "status",
   ariaLive |-> IF priority = "omitted" THEN "polite" ELSE priority,
   ariaAtomic |-> "true",
   textContent |-> message]

\* announce(message, priority) of useAnnouncer: no guard precedes
\* document.createElement, which is a ReferenceError where no document
\* exists.
HookAnnounce(message, priority) ==
  /\ Len(announcements) < MaxAnnouncements
  /\ IF documentDefined
     THEN LET id == Len(announcements) + 1
          IN  /\ announcements' = Append(announcements,
                                         HookAnnouncement(message, priority))
              /\ bodyChildren' = bodyChildren \cup {id}
              /\ hookTimers' = hookTimers \cup {id}
              /\ announceOp' = [op |-> "hookAnnounce", message |-> message,
                                priority |-> priority, created |-> id,
                                threw |-> FALSE]
     ELSE /\ announceOp' = [op |-> "hookAnnounce", message |-> message,
                            priority |-> priority, created |-> 0,
                            threw |-> TRUE]
          /\ UNCHANGED <<announcements, bodyChildren, hookTimers>>
  /\ UNCHANGED <<documentDefined, timers, itemCount, loop, orientation,
                 currentIndex, renderedIndex, navOp, hookLocale, hookMessages,
                 isLoading, mountLoad, calls, microtasks, hookOp,
                 trapHook, focusVars, localeVars>>

\* The hook's setTimeout callback: removeChild only when the element still
\* has a parent.
HookTimerFires(id) ==
  /\ id \in hookTimers
  /\ hookTimers' = hookTimers \ {id}
  /\ bodyChildren' = bodyChildren \ {id}
  /\ announceOp' = [NoAnnounceOp EXCEPT !.op = "hookTimer", !.created = id]
  /\ UNCHANGED <<documentDefined, announcements, timers, itemCount, loop,
                 orientation, currentIndex, renderedIndex, navOp, hookLocale,
                 hookMessages, isLoading, mountLoad, calls, microtasks, hookOp,
                 trapHook, focusVars, localeVars>>

NextHookAnnounce ==
  \/ NextAnnounce
  \/ \E message \in Messages, priority \in Priorities :
       HookAnnounce(message, priority)
  \/ \E id \in 1..MaxAnnouncements : HookTimerFires(id)

SpecHookAnnounce == InitAnnounce /\ [][NextHookAnnounce]_vars

\* C18: the hook's announce does what announceToScreenReader does with the
\* same message and priority: where that creates an element, one element
\* with the same role, aria-live and text is added and its removal is
\* scheduled; where that does nothing, nothing is added or scheduled and
\* nothing is thrown.
C18_HookMatchesCore ==
  [][announceOp'.op = "hookAnnounce"
     => IF Announces(announceOp'.message)
        THEN /\ announcements' =
                  Append(announcements,
                         Announcement(announceOp'.message,
                                      announceOp'.priority))
             /\ bodyChildren' = bodyChildren \cup {Len(announcements')}
             /\ hookTimers' = hookTimers \cup {Len(announcements')}
             /\ ~announceOp'.threw
        ELSE /\ UNCHANGED <<announcements, bodyChildren, hookTimers>>
             /\ ~announceOp'.threw]_vars

(***************************************************************************)
(* useA11yLocale                                                           *)
(***************************************************************************)
\* The codes passed to the hook's setLocale: the built-in ones, one that is
\* not registered and the empty string.
HookCodes == {"en", "sv", "de", ""}

InFlight == {c \in 1..Len(calls) : calls[c].pc \notin {"done", "failed"}}

\* PromiseReactionJobs run in the order they were enqueued.
Enqueue(kind, c) == Append(microtasks, [kind |-> kind, call |-> c])

\* The import() of the mount effect settles: its then or catch callback
\* becomes ready.
MountImportSettles(ok) ==
  /\ mountLoad = "pending"
  /\ mountLoad' = "queued"
  /\ microtasks' = Enqueue(IF ok THEN "mountThen" ELSE "mountCatch", 0)
  /\ hookOp' = [hookOp EXCEPT !.op = "mountImport", !.call = 0]
  /\ UNCHANGED <<hookLocale, hookMessages, isLoading, calls, hookTimers,
                 itemCount, loop, orientation, currentIndex, renderedIndex,
                 navOp, trapHook, focusVars, localeVars, announceVars>>

\* setLocale(newLocale) of the hook, up to its first await.
HookSetLocale(newLocale) ==
  /\ Len(calls) < MaxCalls
  /\ isLoading' = TRUE
  /\ calls' = Append(calls, [locale |-> newLocale, pc |-> "import",
                             table |-> Undefined,
                             overlaps |-> InFlight # {}])
  /\ hookOp' = [hookOp EXCEPT !.op = "setLocale", !.call = Len(calls) + 1]
  /\ UNCHANGED <<hookLocale, hookMessages, mountLoad, microtasks, hookTimers,
                 itemCount, loop, orientation, currentIndex, renderedIndex,
                 navOp, trapHook, focusVars, localeVars, announceVars>>

\* The import() a call awaits settles, in whatever order the module loader
\* settles them: the call's continuation, or its catch block, becomes ready.
ImportSettles(c, ok) ==
  /\ c \in 1..Len(calls)
  /\ calls[c].pc = "import"
  /\ calls' = [calls EXCEPT ![c].pc = "queued"]
  /\ microtasks' = Enqueue(IF ok THEN "core" ELSE "catch", c)
  /\ hookOp' = [hookOp EXCEPT !.op = "import", !.call = c]
  /\ UNCHANGED <<hookLocale, hookMessages, isLoading, mountLoad, hookTimers,
                 itemCount, loop, orientation, currentIndex, renderedIndex,
                 navOp, trapHook, focusVars, localeVars, announceVars>>

\* A continuation that sets the locale and keeps the messages it has.
ResolvedKeepsMessages(call) == <<call.locale, hookMessages>>

\* <<locale, messages>> after setLocaleState(newLocale) and
\* setMessages(getMessages()).
Resolved(call) == <<call.locale, getMessages>>

\* The first ready continuation runs to its next await or to its end.
RunMicrotask ==
  /\ microtasks # <<>>
  /\ LET job == Head(microtasks)
         c == job.call
         rest == Tail(microtasks)
     IN  CASE job.kind = "mountThen" ->
                /\ hookMessages' = getMessages
                /\ hookLocale' = getCurrentLocale
                /\ isLoading' = FALSE
                /\ mountLoad' = "done"
                /\ microtasks' = rest
                /\ hookOp' = [hookOp EXCEPT !.op = "mountThen", !.call = 0]
                /\ UNCHANGED <<calls, currentLocale, messages, localeOp>>
           [] job.kind = "mountCatch" ->
                /\ isLoading' = FALSE
                /\ mountLoad' = "failed"
                /\ microtasks' = rest
                /\ hookOp' = [hookOp EXCEPT !.op = "mountCatch", !.call = 0]
                /\ UNCHANGED <<hookMessages, hookLocale, calls, currentLocale,
                               messages, localeOp>>
           [] job.kind = "core" ->
                \* await setCoreLocale(newLocale): the core function runs
                \* to its end, and the await takes one more job.
                LET r == LocaleSet(localeData, calls[c].locale, currentLocale,
                                   messages)
                IN  /\ currentLocale' = r[1]
                    /\ messages' = r[2]
                    /\ localeOp' = [op |-> "setLocale",
                                    code |-> calls[c].locale,
                                    table |-> Undefined]
                    /\ calls' = [calls EXCEPT ![c].pc = "awaiting",
                                              ![c].table = r[2]]
                    /\ microtasks' = Append(rest, [kind |-> "resolve",
                                                   call |-> c])
                    /\ hookOp' = [hookOp EXCEPT !.op = "core", !.call = c]
                    /\ UNCHANGED <<hookMessages, hookLocale, isLoading,
                                   mountLoad>>
           [] job.kind = "resolve" ->
                /\ hookLocale' = Resolved(calls[c])[1]
                /\ hookMessages' = Resolved(calls[c])[2]
                /\ isLoading' = FALSE
                /\ calls' = [calls EXCEPT ![c].pc = "done"]
                /\ microtasks' = rest
                /\ hookOp' = [op |-> "resolve", call |-> c,
                              lastResolved |-> c]
                /\ UNCHANGED <<mountLoad, currentLocale, messages, localeOp>>
           [] job.kind = "catch" ->
                /\ isLoading' = FALSE
                /\ calls' = [calls EXCEPT ![c].pc = "failed"]
                /\ microtasks' = rest
                /\ hookOp' = [hookOp EXCEPT !.op = "catch", !.call = c]
                /\ UNCHANGED <<hookMessages, hookLocale, mountLoad,
                               currentLocale, messages, localeOp>>
  /\ UNCHANGED <<localeData, registrations, hookTimers, itemCount, loop,
                 orientation, currentIndex, renderedIndex, navOp, trapHook, focusVars,
                 announceVars>>

NextLocaleHook ==
  \/ \E ok \in BOOLEAN : MountImportSettles(ok)
  \/ \E newLocale \in HookCodes : HookSetLocale(newLocale)
  \/ \E c \in 1..MaxCalls, ok \in BOOLEAN : ImportSettles(c, ok)
  \/ RunMicrotask

SpecLocaleHook == InitLocale /\ [][NextLocaleHook]_vars

EffectCleanupNone(id) == 0

\* const cleanup = trapFocus(elementRef.current); return cleanup;
EffectCleanup(id) == id

\* if (!isActive || !elementRef.current) return;
EffectInstalls(isActive, attached) == isActive /\ attached

\* One commit of the component: when the effect is due (mount, a changed
\* isActive, unmount) React runs the cleanup the previous run returned and
\* then, unless the component is going away, the effect itself.
FocusTrapCommit(phase, isActive, attached, due) ==
  LET old     == trapHook.cleanup
      clean   == due /\ old # 0
      install == due /\ phase = "mounted" /\ EffectInstalls(isActive, attached)
      id      == Len(traps) + 1
      ls      == IF clean THEN ReleasedListeners(listeners, old) ELSE listeners
      ts      == IF clean THEN [traps EXCEPT ![old].released = TRUE] ELSE traps
      act     == IF install THEN FocusResult(firstFocusable, activeElement)
                 ELSE activeElement
  IN  /\ install => Len(traps) < MaxTraps
      /\ traps' = IF install THEN Append(ts, NewTrap) ELSE ts
      /\ listeners' = IF install THEN AddEventListener(ls, id) ELSE ls
      /\ activeElement' = act
      /\ trapHook' = [phase |-> phase, isActive |-> isActive,
                      attached |-> attached,
                      cleanup |-> IF ~due THEN old
                                  ELSE IF install THEN EffectCleanup(id)
                                  ELSE 0]
      /\ lastOp' = [NoOp EXCEPT !.op = "useFocusTrap",
                                !.trap = IF install THEN id ELSE 0,
                                !.before = activeElement]
      /\ tabRun' = NextTabRun("useFocusTrap", act)
      /\ modal' = NextModal("useFocusTrap")
      /\ UNCHANGED <<children, previousElement, savedFrom, itemCount, loop,
                     orientation, currentIndex, renderedIndex, navOp,
                     hookTimers, hookLocale, hookMessages, isLoading,
                     mountLoad, calls, microtasks, hookOp, localeVars,
                     announceVars>>

\* The first render: useFocusTrap(isActive), with the ref on a rendered
\* element or on none.
FocusTrapMount(isActive, attached) ==
  /\ trapHook.phase = "unmounted"
  /\ FocusTrapCommit("mounted", isActive, attached, TRUE)

\* A render with another isActive, which may also render or drop the
\* element the ref is on.
FocusTrapSetActive(isActive, attached) ==
  /\ trapHook.phase = "mounted"
  /\ isActive # trapHook.isActive
  /\ FocusTrapCommit("mounted", isActive, attached, TRUE)

\* A render with the same isActive that renders or drops the element: the
\* dependency list [isActive] is unchanged and the effect does not run.
FocusTrapSetRef(attached) ==
  /\ trapHook.phase = "mounted"
  /\ attached # trapHook.attached
  /\ FocusTrapCommit("mounted", trapHook.isActive, attached, FALSE)

FocusTrapUnmount ==
  /\ trapHook.phase = "mounted"
  /\ FocusTrapCommit("gone", trapHook.isActive, FALSE, TRUE)

InitFocusTrapHook == InitFocus /\ Len(children) <= 1

NextFocusTrapHook ==
  \/ \E isActive \in BOOLEAN, attached \in BOOLEAN :
       FocusTrapMount(isActive, attached)
  \/ \E isActive \in BOOLEAN, attached \in BOOLEAN :
       FocusTrapSetActive(isActive, attached)
  \/ \E attached \in BOOLEAN : FocusTrapSetRef(attached)
  \/ FocusTrapUnmount

SpecFocusTrapHook == InitFocusTrapHook /\ [][NextFocusTrapHook]_vars

(***************************************************************************)
(* Further properties of the hooks, the registry and the announcer         *)
(***************************************************************************)
\* C21: every ArrowDown press with loop on advances the current index by
\* exactly one, modulo the item count, whether or not the component has
\* rendered since the previous press.
C21_EachPressAdvances ==
  [][(navOp'.op = "keydown" /\ navOp'.key = "ArrowDown" /\ loop
      /\ orientation = "vertical")
     => currentIndex' = (currentIndex + 1) % itemCount]_vars

C23_HookMirrorsCore ==
  (mountLoad = "done" /\ InFlight = {})
  => (hookLocale = getCurrentLocale /\ hookMessages = getMessages)

\* C24: a cleanup timer, of announceToScreenReader or of useAnnouncer,
\* that fires after its element was detached from the body does not throw
\* and changes nothing in the body.
C24_TimerNeverThrows ==
  announceOp.op \in {"timer", "hookTimer"} => ~announceOp.threw

\* C30: isLoading is true while a setLocale call of the hook is pending,
\* and false once a call was made and every call has settled.
C30_LoadingWhilePending ==
  /\ InFlight # {} => isLoading
  /\ (InFlight = {} /\ calls # <<>> /\ mountLoad \in {"done", "failed"})
     => ~isLoading

\* C25: a trap's handler calls preventDefault, and moves focus, only for
\* Tab with focus on the trap's last element or Shift+Tab with focus on its
\* first element; a key other than Tab is never prevented and leaves focus
\* where it was.
C25_OnlyBoundaryCases ==
  lastOp.op = "keydown"
  => /\ \A t \in lastOp.preventedBy \cup lastOp.movedBy :
          /\ t \in lastOp.ran
          /\ t \in lastOp.preventedBy
          /\ lastOp.key = "Tab"
          /\ lastOp.before = (IF lastOp.shift THEN traps[t].first
                              ELSE traps[t].last)
     /\ lastOp.key # "Tab" => activeElement = lastOp.before

\* Tab inside an active trap with focus not on the last element: the
\* handler ran, prevented nothing, and the browser moved focus on.
C25_Witness ==
  /\ lastOp.op = "keydown" /\ lastOp.key = "Tab" /\ ~lastOp.shift
  /\ lastOp.ran # {}
  /\ \A t \in lastOp.ran : lastOp.before # traps[t].last
  /\ lastOp.preventedBy = {}
  /\ activeElement # lastOp.before

\* C26: the stored element is the one of the most recent saveFocus alone:
\* restoreFocus() focuses the element that was active at the most recent
\* saveFocus when that was an HTMLElement, and leaves focus where it is when
\* it was not, whatever an earlier saveFocus had stored.
C26_LastSaveWins ==
  /\ savedFrom # Null => previousElement = SavedElement(savedFrom)
  /\ (lastOp.op = "restoreFocus" /\ savedFrom # Null)
     => IF savedFrom \in Elements /\ IsHTMLElement(savedFrom)
        THEN activeElement = savedFrom /\ ~lastOp.threw
        ELSE activeElement = lastOp.before /\ ~lastOp.threw

\* A saveFocus with an SVG element active replaced a stored element, and
\* the restoreFocus() after it left focus on the SVG element.
C26_Witness ==
  /\ lastOp.op = "restoreFocus"
  /\ lastOp.target \in Elements
  /\ savedFrom \in Elements /\ ~IsHTMLElement(savedFrom)
  /\ previousElement = Null
  /\ activeElement = lastOp.before

\* C27: with nothing else touching the body, the status elements in the
\* body are exactly those of the calls whose timer has not fired (k
\* elements after k calls and no timer), each timer removes the element of
\* its own call and no other, and none is left when every timer has fired.
C27_OverlappingIndependent ==
  /\ [][announceOp'.op = "timer"
        => /\ announceOp'.created \in bodyChildren
           /\ bodyChildren' = bodyChildren \ {announceOp'.created}
           /\ ~announceOp'.threw]_vars
  /\ [](bodyChildren = timers)
  /\ [](timers = 1..Len(announcements)
        => Cardinality(bodyChildren) = Len(announcements))
  /\ [](timers = {} => bodyChildren = {})

\* Two calls overlapped and the timer of the first fired before the timer
\* of the second: the second element alone is in the body.
C27_Witness ==
  /\ Len(announcements) = 2
  /\ announceOp.op = "timer" /\ announceOp.created = 1
  /\ bodyChildren = {2}
  /\ timers = {2}

C28_TrapFollowsIsActive ==
  /\ [][Len(traps') > Len(traps)
        => /\ trapHook'.phase = "mounted"
           /\ trapHook'.isActive /\ trapHook'.attached]_vars
  /\ [](Len(listeners) <= 1)
  /\ [](listeners # <<>> => listeners = <<trapHook.cleanup>>)
  /\ []((trapHook.phase # "mounted" \/ ~trapHook.isActive)
        => listeners = <<>>)

\* isActive went from true to false and to true again: the first trap is
\* released and the second trap's listener is the only one.
C28_Witness ==
  /\ trapHook.phase = "mounted" /\ trapHook.isActive
  /\ Len(traps) = 2 /\ traps[1].released /\ ~traps[2].released
  /\ listeners = <<2>>
====
